---- MODULE Spec2Model ----
(***************************************************************************)
(* Request construction (request.rs), body sources (body.rs) and the error *)
(* taxonomy (error.rs) of ureq, as three state machines over one set of    *)
(* variables:                                                              *)
(*   Spec      - one RequestBuilder from its factory to its terminal       *)
(*               operation, then the next builder;                         *)
(*   BodySpec  - one Body from its conversion to its last read;            *)
(*   ErrorSpec - Error values, their conversions from/into io::Error.      *)
(***************************************************************************)
EXTENDS Integers, Sequences, FiniteSets, TLC

VARIABLES
    stage,      \* "none" | "building" | "done": the builder's lifetime
    phase,      \* the PhantomData<B> tag: "WithoutBody" | "WithBody"
    builder,    \* http::request::Builder, a Result<Parts, http::Error>
    supplied,   \* history: the (name, value) pairs given to header()/content_type()
    failed,     \* history: some supplied value failed validation
    ops,        \* history: builder operations applied to this builder
    terminals,  \* history: terminal operations performed on this builder
    touched,    \* history: payload conversions / serializations performed
    payload,    \* history: the data given to send()/send_json() (at most one)
    engine,     \* what Agent::do_run was handed, and how many times
    result,     \* what the last operation returned to the caller
    last,       \* history: the last operation applied to this builder
    born,       \* history: the phase the factory gave this builder
    body,       \* BodySpec: the Body (at most one)
    source,     \* BodySpec: the payload the Body was made from
    device,     \* BodySpec: the readable device behind a stream source
    out,        \* BodySpec: the bytes read from the Body so far
    reads,      \* BodySpec: the read attempts made on the Body, and the last count
    wasEnded,   \* BodySpec: history, the flag has been seen TRUE on this Body
    err,        \* ErrorSpec: the Error under conversion (at most one)
    io          \* ErrorSpec: the io::Error into_io returned (at most one)

bvars ==
    <<stage, phase, builder, supplied, failed, ops, terminals, touched, payload,
      engine, result, last, born>>
dvars == <<body, source, device, out, reads, wasEnded>>
evars == <<err, io>>
vars == <<bvars, dvars, evars>>

\* ------------------------------------------------------------------ bounds

\* builder operations applied to one builder before its terminal operation
MaxOps == 3
\* bytes in a byte-buffer payload or behind a device
MaxLen == 2
\* length of the buffer handed to one read of a Body
MaxBuf == 2
\* read attempts made on one Body
MaxReads == 4

\* ------------------------------------------------------------- error values

\* io::Error: a kind, and either a message or a boxed error (inner)
IoError(kind, msg) == [kind |-> kind, msg |-> msg, inner |-> <<>>]

IoCustom(kind, e) == [kind |-> kind, msg |-> "", inner |-> <<e>>]

\* ureq::Error: the case, its payload text, and for Io the wrapped io::Error
Error(case, arg) == [case |-> case, arg |-> arg, io |-> <<>>]

Error_Io(e) == [case |-> "Io", arg |-> "", io |-> <<e>>]

TimeoutReasons ==
    {"Global", "Resolver", "OpenConnection", "SendRequest", "SendBody",
     "Await100", "RecvResponse", "RecvBody"}

TimeoutReason_fmt(r) ==
    CASE r = "Global" -> "global"
      [] r = "Resolver" -> "resolver"
      [] r = "OpenConnection" -> "open connection"
      [] r = "SendRequest" -> "send request"
      [] r = "SendBody" -> "send body"
      [] r = "Await100" -> "await 100"
      [] r = "RecvResponse" -> "receive response"
      [] r = "RecvBody" -> "receive body"

RECURSIVE Display(_)
RECURSIVE io_Display(_)

\* io::Error's Display: a boxed error's own Display, else the message
io_Display(e) ==
    IF e.inner # <<>> THEN Display(e.inner[1]) ELSE e.msg

\* the #[error("...")] attributes of the Error cases
Display(e) ==
    CASE e.case = "Http" -> "http: " \o e.arg
      [] e.case = "BadUri" -> "bad uri: " \o e.arg
      [] e.case = "Protocol" -> "protocol: " \o e.arg
      [] e.case = "Io" -> "io: " \o io_Display(e.io[1])
      [] e.case = "Timeout" -> "timeout: " \o TimeoutReason_fmt(e.arg)
      [] e.case = "HostNotFound" -> "host not found"
      [] e.case = "RedirectFailed" -> "redirect failed"
      [] e.case = "InvalidProxyUrl" -> "invalid proxy url"
      [] e.case = "ConnectionFailed" -> "connection failed"
      [] e.case = "BodyExceedsLimit" -> "the response body is larger than request limit"
      [] e.case = "Tls" -> e.arg
      [] e.case = "Pem" -> "PEM: " \o e.arg
      [] e.case = "Rustls" -> "rustls: " \o e.arg
      [] e.case = "NativeTls" -> "native-tls: " \o e.arg
      [] e.case = "Der" -> "der: " \o e.arg
      [] e.case = "Cookie" -> "cookie: " \o e.arg
      [] e.case = "CookieValue" -> e.arg
      [] e.case = "CookieJar" -> "cookie: " \o e.arg
      [] e.case = "UnknownCharset" -> "unknown character set: " \o e.arg

into_io_always_wraps(e) == IoCustom("Other", e)

\* Error::into_io
into_io(e) ==
    IF e.case = "Io" THEN e.io[1] ELSE IoCustom("Other", e)

\* Error::disconnected
disconnected == Error_Io(IoError("UnexpectedEof", "Peer disconnected"))

\* --------------------------------------------- http::request::Builder (Parts)

GoodUri == "http://httpbin.org/get"
OtherUri == "https://httpbin.org/get"
FileUri == "file:///some/path"

\* Uri::try_from: a scheme with an empty authority is refused
Uri_try_from(u) ==
    IF u = FileUri
    THEN [ok |-> FALSE, err |-> "invalid format"]
    ELSE [ok |-> TRUE, err |-> ""]

\* HeaderName::try_from: the name is a token, kept in lower case
HeaderName_try_from(k) ==
    CASE k = "X-Test" -> [ok |-> TRUE, name |-> "x-test", err |-> ""]
      [] k = "x-test" -> [ok |-> TRUE, name |-> "x-test", err |-> ""]
      [] k = "Accept" -> [ok |-> TRUE, name |-> "accept", err |-> ""]
      [] k = "content-type" -> [ok |-> TRUE, name |-> "content-type", err |-> ""]
      [] OTHER -> [ok |-> FALSE, name |-> "", err |-> "invalid HTTP header name"]

\* HeaderValue::try_from: no control characters
HeaderValue_try_from(v) ==
    IF v \in {"bad\nvalue"}
    THEN [ok |-> FALSE, err |-> "failed to parse header value"]
    ELSE [ok |-> TRUE, err |-> ""]

\* HeaderMap::append: a further value for a name already present joins that
\* name's entry, after the values it holds; a new name makes a new entry
HeaderMap_append(map, name, value) ==
    IF \E i \in 1..Len(map) : map[i].name = name
    THEN [i \in 1..Len(map) |->
            IF map[i].name = name
            THEN [map[i] EXCEPT !.values = Append(@, value)]
            ELSE map[i]]
    ELSE Append(map, [name |-> name, values |-> <<value>>])

RECURSIVE HeaderMap_iter(_)
\* HeaderMap::iter: entry by entry, each name once per value it holds
HeaderMap_iter(map) ==
    IF map = <<>> THEN <<>>
    ELSE [i \in 1..Len(map[1].values) |-> <<map[1].name, map[1].values[i]>>]
         \o HeaderMap_iter(Tail(map))

\* Request::builder(): Ok(Parts::default())
Builder_new ==
    [ok |-> TRUE, method |-> "GET", uri |-> "/", version |-> "HTTP/1.1",
     headers |-> <<>>, err |-> ""]

\* the Err side of the builder: the parts are gone, the first error stays
Builder_err(msg) ==
    [ok |-> FALSE, method |-> "", uri |-> "", version |-> "",
     headers |-> <<>>, err |-> msg]

Builder_method(b, m) ==
    IF ~b.ok THEN b ELSE [b EXCEPT !.method = m]

Builder_uri_forgets_error(b, u) ==
    IF Uri_try_from(u).ok
    THEN [(IF b.ok THEN b ELSE Builder_new) EXCEPT !.uri = u]
    ELSE Builder_err(Uri_try_from(u).err)

Builder_uri(b, u) ==
    IF ~b.ok THEN b
    ELSE IF Uri_try_from(u).ok THEN [b EXCEPT !.uri = u]
    ELSE Builder_err(Uri_try_from(u).err)

Builder_header_replaces(b, k, v) ==
    IF ~b.ok THEN b
    ELSE IF ~HeaderName_try_from(k).ok THEN Builder_err(HeaderName_try_from(k).err)
    ELSE IF ~HeaderValue_try_from(v).ok THEN Builder_err(HeaderValue_try_from(v).err)
    ELSE [b EXCEPT !.headers =
            IF \E i \in 1..Len(@) : @[i].name = HeaderName_try_from(k).name
            THEN [i \in 1..Len(@) |->
                    IF @[i].name = HeaderName_try_from(k).name
                    THEN [@[i] EXCEPT !.values = <<v>>]
                    ELSE @[i]]
            ELSE Append(@, [name |-> HeaderName_try_from(k).name, values |-> <<v>>])]

Builder_header(b, k, v) ==
    IF ~b.ok THEN b
    ELSE IF ~HeaderName_try_from(k).ok THEN Builder_err(HeaderName_try_from(k).err)
    ELSE IF ~HeaderValue_try_from(v).ok THEN Builder_err(HeaderValue_try_from(v).err)
    ELSE [b EXCEPT !.headers = HeaderMap_append(@, HeaderName_try_from(k).name, v)]

Builder_version(b, v) ==
    IF ~b.ok THEN b ELSE [b EXCEPT !.version = v]

\* Builder::body(()): the Result the builder holds
Builder_body(b) == b

\* ------------------------------------------------------------ body sources

\* the types impl_into_body_slice! is invoked for
SliceTypes == {"&[u8]", "&str", "String", "Vec<u8>", "&String", "&Vec<u8>"}

\* the types impl_into_body! is invoked for
ReaderTypes ==
    {"&File", "&TcpStream", "&Stdin", "File", "TcpStream", "Stdin",
     "UnixStream", "RecvBody"}

ResponseType == "Response<RecvBody>"

StreamTypes == ReaderTypes \cup {ResponseType}

\* a source type written with & is passed by reference, any other by value
ByReference(t) == t \in {"&File", "&TcpStream", "&Stdin"}

BodyInner_ByteSlice(bytes) == [inner |-> "ByteSlice", data |-> bytes, dev |-> ""]

BodyInner_Reader(t) == [inner |-> "Reader", data |-> <<>>, dev |-> t]

BodyInner_OwnedReader(t) == [inner |-> "OwnedReader", data |-> <<>>, dev |-> t]

Body_from_ended(inner) ==
    [inner |-> inner.inner, data |-> inner.data, dev |-> inner.dev, ended |-> TRUE]

\* impl From<BodyInner> for Body
Body_from(inner) ==
    [inner |-> inner.inner, data |-> inner.data, dev |-> inner.dev, ended |-> FALSE]

\* Body::empty
empty == Body_from(BodyInner_ByteSlice(<<>>))

\* Body::from_reader
from_reader(t) == Body_from(BodyInner_Reader(t))

\* Body::from_owned_reader
from_owned_reader(t) == Body_from(BodyInner_OwnedReader(t))

as_body_slice_drops_last(p) ==
    Body_from(BodyInner_ByteSlice(
        IF p.bytes = <<>> THEN <<>> ELSE SubSeq(p.bytes, 1, Len(p.bytes) - 1)))

\* impl_into_body_slice!: as_body of a byte buffer or text
as_body_slice(p) == Body_from(BodyInner_ByteSlice(p.bytes))

as_body_reader_by_passing(p) ==
    IF ByReference(p.type)
    THEN Body_from(BodyInner_Reader(p.type))
    ELSE Body_from(BodyInner_OwnedReader(p.type))

\* impl_into_body!($t, Reader): as_body of a readable device
as_body_reader(p) == Body_from(BodyInner_Reader(p.type))

\* impl AsBody for Response<RecvBody>
as_body_response(p) == Body_from(BodyInner_Reader(p.type))

\* AsBody::as_body, by the implementing type
as_body(p) ==
    CASE p.type \in SliceTypes -> as_body_slice(p)
      [] p.type \in ReaderTypes -> as_body_reader(p)
      [] p.type = ResponseType -> as_body_response(p)

\* ----------------------------------------------------- the terminal operations

Hello == <<104, 101, 108, 108, 111>>

\* the payloads handed to send()
SendPayloads ==
    {[type |-> "&str", bytes |-> Hello],
     [type |-> "Vec<u8>", bytes |-> <<>>],
     [type |-> "&File", bytes |-> <<7>>],
     [type |-> "File", bytes |-> <<7>>]}

\* the values handed to send_json(): one that serializes, one that does not
JsonValues ==
    {[ok |-> TRUE, bytes |-> <<123, 125>>], [ok |-> FALSE, bytes |-> <<>>]}

\* SendBody::from_json: the serialized text as a body, or the serializer's error
from_json(data) ==
    IF data.ok
    THEN [ok |-> TRUE, body |-> <<as_body_slice([type |-> "String", bytes |-> data.bytes])>>,
          err |-> <<>>]
    ELSE [ok |-> FALSE, body |-> <<>>,
          err |-> <<Error_Io(IoError("InvalidData", "serialize"))>>]

\* SendBody::none
none == empty

\* Agent::do_run: the results the execution engine may return
EngineOutcomes ==
    {[ok |-> TRUE, status |-> 200, err |-> <<>>],
     [ok |-> FALSE, status |-> 0, err |-> <<disconnected>>],
     [ok |-> FALSE, status |-> 0, err |-> <<Error("Timeout", "Global")>>]}

NoResult == [kind |-> "None", status |-> 0, err |-> <<>>]

Ok(status) == [kind |-> "Response", status |-> status, err |-> <<>>]

Err(e) == [kind |-> "Error", status |-> 0, err |-> <<e>>]

\* what a builder operation hands back: the builder itself
Returned_Self_or_error(b) ==
    IF b.ok THEN [kind |-> "Builder", status |-> 0, err |-> <<>>]
    ELSE Err(Error("Http", b.err))

Returned_Self(b) == [kind |-> "Builder", status |-> 0, err |-> <<>>]

\* a terminal operation that returns before reaching the engine
Early(e) ==
    [calls |-> 0, request |-> <<>>, body |-> <<>>, returned |-> <<>>, result |-> Err(e),
     as_body |-> 0, from_json |-> 0]

do_call_retries(request, b, o) ==
    [calls |-> IF o.ok THEN 1 ELSE 2, request |-> <<request>>, body |-> <<b>>,
     returned |-> <<o>>,
     result |-> IF o.ok THEN Ok(o.status) ELSE Err(o.err[1]),
     as_body |-> 0, from_json |-> 0]

\* do_call: one do_run, its response or its error as it came
do_call(request, b, o) ==
    [calls |-> 1, request |-> <<request>>, body |-> <<b>>, returned |-> <<o>>,
     result |-> IF o.ok THEN Ok(o.status) ELSE Err(o.err[1]),
     as_body |-> 0, from_json |-> 0]

\* RequestBuilder<WithoutBody>::call
call_run(b, o) ==
    IF ~Builder_body(b).ok
    THEN Early(Error("Http", Builder_body(b).err))
    ELSE do_call(Builder_body(b), none, o)

\* RequestBuilder<WithBody>::send
send_run(b, data, o) ==
    IF ~Builder_body(b).ok
    THEN Early(Error("Http", Builder_body(b).err))
    ELSE [do_call(Builder_body(b), as_body(data), o) EXCEPT !.as_body = 1]

send_json_serializes_first(b, data, o) ==
    IF ~from_json(data).ok
    THEN [Early(from_json(data).err[1]) EXCEPT !.from_json = 1]
    ELSE IF ~Builder_body(b).ok
    THEN [Early(Error("Http", Builder_body(b).err)) EXCEPT !.from_json = 1]
    ELSE [do_call(Builder_body(b), from_json(data).body[1], o) EXCEPT !.from_json = 1]

\* RequestBuilder<WithBody>::send_json
send_json_run(b, data, o) ==
    IF ~Builder_body(b).ok
    THEN Early(Error("Http", Builder_body(b).err))
    ELSE IF ~from_json(data).ok
    THEN [Early(from_json(data).err[1]) EXCEPT !.from_json = 1]
    ELSE [do_call(Builder_body(b), from_json(data).body[1], o) EXCEPT !.from_json = 1]

\* --------------------------------------------------------- the builder machine

\* the factories: the method decides the phase
Factories == {<<"WithoutBody", "GET">>, <<"WithBody", "POST">>}

InitialUris == {GoodUri, FileUri}

UriInputs == {OtherUri, FileUri}

VersionInputs == {"HTTP/1.0", "HTTP/1.1"}

HeaderInputs ==
    ({"X-Test", "x-test", "Accept"} \X {"1", "2"})
        \cup {<<"bad name", "1">>, <<"Accept", "bad\nvalue">>}

ContentTypeInputs == {"text/plain", "bad\nvalue"}

Reachable_in_any_phase(ph, op) == TRUE

\* the impl blocks: what RequestBuilder<B> offers for each B
Reachable(ph, op) ==
    CASE op \in {"header", "uri", "version"} -> TRUE
      [] op = "call" -> ph = "WithoutBody"
      [] op \in {"content_type", "send", "send_json"} -> ph = "WithBody"

NoEngine == [calls |-> 0, request |-> <<>>, body |-> <<>>, returned |-> <<>>]

Untouched == [as_body |-> 0, from_json |-> 0]

\* RequestBuilder::new, of either phase
new(ph, m, u) ==
    /\ stage \in {"none", "done"}
    /\ stage' = "building"
    /\ phase' = ph
    /\ born' = ph
    /\ builder' = Builder_uri(Builder_method(Builder_new, m), u)
    /\ supplied' = <<>>
    /\ failed' = ~Uri_try_from(u).ok
    /\ ops' = 0
    /\ terminals' = 0
    /\ touched' = Untouched
    /\ payload' = <<>>
    /\ engine' = NoEngine
    /\ result' = Returned_Self(builder')
    /\ last' = "new"
    /\ UNCHANGED <<dvars, evars>>

\* what every builder operation leaves alone
Building(op) ==
    /\ stage = "building"
    /\ Reachable(phase, op)
    /\ ops < MaxOps
    /\ ops' = ops + 1
    /\ last' = op
    /\ result' = Returned_Self(builder')
    /\ UNCHANGED <<stage, phase, born, terminals, touched, payload, engine, dvars, evars>>

\* RequestBuilder::header
header(k, v) ==
    /\ Building("header")
    /\ builder' = Builder_header(builder, k, v)
    /\ supplied' = Append(supplied, <<k, v>>)
    /\ failed' = (failed \/ ~HeaderName_try_from(k).ok \/ ~HeaderValue_try_from(v).ok)

\* RequestBuilder::uri
uri(u) ==
    /\ Building("uri")
    /\ builder' = Builder_uri(builder, u)
    /\ failed' = (failed \/ ~Uri_try_from(u).ok)
    /\ UNCHANGED supplied

\* RequestBuilder::version
version(v) ==
    /\ Building("version")
    /\ builder' = Builder_version(builder, v)
    /\ UNCHANGED <<supplied, failed>>

\* RequestBuilder<WithBody>::content_type
content_type(v) ==
    /\ Building("content_type")
    /\ builder' = Builder_header(builder, "content-type", v)
    /\ supplied' = Append(supplied, <<"content-type", v>>)
    /\ failed' = (failed \/ ~HeaderValue_try_from(v).ok)

\* a terminal operation takes the builder by value: it is gone afterwards
Terminal(op, data, r) ==
    /\ stage = "building"
    /\ Reachable(phase, op)
    /\ stage' = "done"
    /\ last' = op
    /\ terminals' = terminals + 1
    /\ payload' = data
    /\ engine' = [calls |-> engine.calls + r.calls, request |-> r.request,
                  body |-> r.body, returned |-> r.returned]
    /\ touched' = [as_body |-> touched.as_body + r.as_body,
                   from_json |-> touched.from_json + r.from_json]
    /\ result' = r.result
    /\ UNCHANGED <<phase, born, builder, supplied, failed, ops, dvars, evars>>

\* call(self), with what the engine returns
call ==
    /\ stage = "building"
    /\ \E o \in EngineOutcomes : Terminal("call", <<>>, call_run(builder, o))

\* send(self, data), with what the engine returns
send(data) ==
    /\ stage = "building"
    /\ \E o \in EngineOutcomes : Terminal("send", <<data>>, send_run(builder, data, o))

\* send_json(self, data), with what the engine returns
send_json(data) ==
    /\ stage = "building"
    /\ \E o \in EngineOutcomes :
          Terminal("send_json", <<data>>, send_json_run(builder, data, o))

NoBuilder ==
    /\ stage = "none"
    /\ phase = "WithoutBody"
    /\ born = "WithoutBody"
    /\ builder = Builder_new
    /\ supplied = <<>>
    /\ failed = FALSE
    /\ ops = 0
    /\ terminals = 0
    /\ touched = Untouched
    /\ payload = <<>>
    /\ engine = NoEngine
    /\ result = NoResult
    /\ last = "none"

NoDevice == [reads |-> 0, content |-> <<>>, panicked |-> FALSE]

NoReads == [count |-> 0, last |-> 0]

NoBody ==
    /\ body = <<>>
    /\ source = <<>>
    /\ device = NoDevice
    /\ out = <<>>
    /\ reads = NoReads
    /\ wasEnded = FALSE

NoError ==
    /\ err = <<>>
    /\ io = <<>>

Init == NoBuilder /\ NoBody /\ NoError

Next ==
    \/ \E f \in Factories, u \in InitialUris : new(f[1], f[2], u)
    \/ \E h \in HeaderInputs : header(h[1], h[2])
    \/ \E u \in UriInputs : uri(u)
    \/ \E v \in VersionInputs : version(v)
    \/ \E v \in ContentTypeInputs : content_type(v)
    \/ call
    \/ \E data \in SendPayloads : send(data)
    \/ \E data \in JsonValues : send_json(data)

Spec == Init /\ [][Next]_vars

\* ------------------------------------------------------------ the body machine

Bytes == {0, 255}

ByteSeqs == UNION {[1..n -> Bytes] : n \in 0..MaxLen}

Min(a, b) == IF a < b THEN a ELSE b

\* the sources a Body is converted from
BodySources == {[type |-> t, bytes |-> bs] : t \in SliceTypes \cup StreamTypes, bs \in ByteSeqs}

\* the device a stream source reads from
DeviceOf(p) ==
    [reads |-> 0,
     content |-> IF p.type \in SliceTypes THEN <<>> ELSE p.bytes,
     panicked |-> FALSE]

Made(via, p, b) ==
    /\ body' = <<b>>
    /\ source' = <<[via |-> via, type |-> p.type, bytes |-> p.bytes]>>
    /\ device' = DeviceOf(p)
    /\ out' = <<>>
    /\ reads' = NoReads
    /\ wasEnded' = b.ended
    /\ UNCHANGED <<bvars, evars>>

\* AsBody::as_body on a source
convert(p) ==
    /\ body = <<>>
    /\ Made("as_body", p, as_body(p))

\* Body::empty()
make_empty ==
    /\ body = <<>>
    /\ Made("empty", [type |-> "&[u8]", bytes |-> <<>>], empty)

\* Body::from_reader(&mut device)
make_from_reader(p) ==
    /\ body = <<>>
    /\ Made("from_reader", p, from_reader(p.type))

\* Body::from_owned_reader(device)
make_from_owned_reader(p) ==
    /\ body = <<>>
    /\ Made("from_owned_reader", p, from_owned_reader(p.type))

\* one read of the byte-buffer variant into a buffer of n bytes
read_slice(b, n) ==
    [n |-> Min(Len(b.data), n),
     bytes |-> SubSeq(b.data, 1, Min(Len(b.data), n)),
     body |-> [b EXCEPT !.data = SubSeq(@, Min(Len(@), n) + 1, Len(@)),
                        !.ended = (@ \/ Min(Len(b.data), n) = 0)]]

\* the counts Read::read of a device may return for a buffer of n bytes
DeviceCounts(dev, n) ==
    IF dev.content = <<>> THEN {0} ELSE 1..Min(Len(dev.content), n)

\* impl Read for RecvBody: todo!()
Unimplemented(t) == t \in {"RecvBody", ResponseType}

\* the engine reads the byte-buffer variant
read_bytes(n) ==
    /\ body # <<>>
    /\ body[1].inner = "ByteSlice"
    /\ reads.count < MaxReads
    /\ body' = <<read_slice(body[1], n).body>>
    /\ out' = out \o read_slice(body[1], n).bytes
    /\ reads' = [count |-> reads.count + 1, last |-> read_slice(body[1], n).n]
    /\ wasEnded' = (wasEnded \/ body'[1].ended)
    /\ UNCHANGED <<source, device, bvars, evars>>

\* the engine reads a stream variant: one read of the device behind it
read_stream(n) ==
    /\ body # <<>>
    /\ body[1].inner \in {"Reader", "OwnedReader"}
    /\ ~Unimplemented(body[1].dev)
    /\ ~device.panicked
    /\ reads.count < MaxReads
    /\ \E k \in DeviceCounts(device, n) :
          /\ device' = [device EXCEPT !.reads = @ + 1,
                                      !.content = SubSeq(@, k + 1, Len(@))]
          /\ out' = out \o SubSeq(device.content, 1, k)
          /\ body' = <<[body[1] EXCEPT !.ended = (@ \/ k = 0)]>>
          /\ reads' = [count |-> reads.count + 1, last |-> k]
    /\ wasEnded' = (wasEnded \/ body'[1].ended)
    /\ UNCHANGED <<source, bvars, evars>>

\* the engine reads a Body over RecvBody: the read panics
read_recv_body ==
    /\ body # <<>>
    /\ body[1].inner \in {"Reader", "OwnedReader"}
    /\ Unimplemented(body[1].dev)
    /\ ~device.panicked
    /\ reads.count < MaxReads
    /\ device' = [device EXCEPT !.reads = @ + 1, !.panicked = TRUE]
    /\ reads' = [count |-> reads.count + 1, last |-> 0]
    /\ UNCHANGED <<body, source, out, wasEnded, bvars, evars>>

\* the Body goes out of scope
drop ==
    /\ body # <<>>
    /\ body' = <<>>
    /\ source' = <<>>
    /\ device' = NoDevice
    /\ out' = <<>>
    /\ reads' = NoReads
    /\ wasEnded' = FALSE
    /\ UNCHANGED <<bvars, evars>>

BodyNext ==
    \/ \E p \in BodySources : convert(p)
    \/ make_empty
    \/ \E p \in {q \in BodySources : q.type \in {"&File", "&TcpStream"}} : make_from_reader(p)
    \/ \E p \in {q \in BodySources : q.type \in {"File", "TcpStream"}} : make_from_owned_reader(p)
    \/ \E n \in 1..MaxBuf : read_bytes(n)
    \/ \E n \in 1..MaxBuf : read_stream(n)
    \/ read_recv_body
    \/ drop

BodySpec == Init /\ [][BodyNext]_vars

\* ----------------------------------------------------------- the error machine

IoErrors ==
    {IoError("UnexpectedEof", "Peer disconnected"),
     IoError("ConnectionRefused", "connection refused"),
     IoError("TimedOut", "timed out"),
     IoError("Other", "boom")}

\* the Error values raised in the client
Errors ==
    {Error("Http", m) : m \in {"invalid format", "invalid HTTP header name"}}
    \cup {Error("BadUri", m) : m \in {"no host in uri: /path", "no scheme in uri: /path"}}
    \cup {Error("Protocol", m) : m \in {"chunk expected crlf", "missing version"}}
    \cup {Error_Io(e) : e \in IoErrors}
    \cup {Error("Timeout", r) : r \in TimeoutReasons}
    \cup {Error(c, "") : c \in {"HostNotFound", "RedirectFailed", "InvalidProxyUrl",
                                "ConnectionFailed", "BodyExceedsLimit"}}
    \cup {Error("Tls", "Rustls is not enabled")}
    \cup {Error("Pem", "MissingSectionEnd")}
    \cup {Error("Rustls", "peer is incompatible")}
    \cup {Error("NativeTls", "handshake failure")}
    \cup {Error("Der", "truncated")}
    \cup {Error("Cookie", "cookie had no name")}
    \cup {Error("CookieValue", "invalid cookie value")}
    \cup {Error("CookieJar", "unparseable")}
    \cup {Error("UnknownCharset", "klingon")}

\* an Error is raised
raise(e) ==
    /\ err' = <<e>>
    /\ io' = <<>>
    /\ UNCHANGED <<bvars, dvars>>

\* Error::disconnected()
raise_disconnected ==
    /\ err' = <<disconnected>>
    /\ io' = <<>>
    /\ UNCHANGED <<bvars, dvars>>

\* Error::into_io(self)
convert_into_io ==
    /\ err # <<>>
    /\ io = <<>>
    /\ io' = <<into_io(err[1])>>
    /\ UNCHANGED <<err, bvars, dvars>>

\* Error::from(io::Error), the #[from] of the Io case
from_io ==
    /\ io # <<>>
    /\ err' = <<Error_Io(io[1])>>
    /\ io' = <<>>
    /\ UNCHANGED <<bvars, dvars>>

ErrorNext ==
    \/ \E e \in Errors : raise(e)
    \/ raise_disconnected
    \/ convert_into_io
    \/ from_io

ErrorSpec == Init /\ [][ErrorNext]_vars

\* ------------------------------------------------------- claims on the builder

Done == stage = "done"

\* the finalized request's header list, as the engine iterates it
HandedHeaders == HeaderMap_iter(engine.request[1].headers)

\* the supplied pairs, each name as HeaderName keeps it
SuppliedLowered ==
    [i \in 1..Len(supplied) |->
        <<HeaderName_try_from(supplied[i][1]).name, supplied[i][2]>>]

ValuesOf(pairs, n) ==
    LET Named(p) == p[1] = n
        sel == SelectSeq(pairs, Named)
    IN [i \in 1..Len(sel) |-> sel[i][2]]

FirstIndex(pairs, n) ==
    CHOOSE i \in 1..Len(pairs) :
        /\ pairs[i][1] = n
        /\ \A j \in 1..(i - 1) : pairs[j][1] # n

NamesOf(pairs) == {pairs[i][1] : i \in 1..Len(pairs)}

SerializationFailed == last = "send_json" /\ ~payload[1].ok

\* C1: when some supplied value (factory URI, header, uri, content_type) failed
\* validation, the terminal operation returns Error::Http, no response, and the
\* engine is not invoked for that builder; get("file:///some/path").call()
\* returns the Http error "http: invalid format".
C1_InvalidMetadataIsHttpError ==
    (Done /\ failed) =>
        /\ result.kind = "Error"
        /\ result.err[1].case = "Http"
        /\ engine.calls = 0
        /\ engine.request = <<>>
        /\ (ops = 0 => Display(result.err[1]) = "http: invalid format")

C1_Witness ==
    /\ Done
    /\ failed
    /\ last = "send"
    /\ Len(supplied) = 2
    /\ ~HeaderName_try_from(supplied[1][1]).ok
    /\ HeaderName_try_from(supplied[2][1]).ok
    /\ result.kind = "Error"

\* C2 (as claimed): every terminal operation whose metadata is valid invokes the
\* engine exactly once and returns exactly what that invocation returned.
C2_Original ==
    (Done /\ ~failed) =>
        /\ engine.calls = 1
        /\ engine.returned # <<>>
        /\ result = IF engine.returned[1].ok
                    THEN Ok(engine.returned[1].status)
                    ELSE Err(engine.returned[1].err[1])

\* C2 (amended): every terminal operation whose metadata is valid and, for
\* send_json, whose value serializes, invokes the engine exactly once and
\* returns exactly what that invocation returned: its response, or its error in
\* the same Error case.
C2_OneAttemptUnlessSerializationFails ==
    (Done /\ ~failed /\ ~SerializationFailed) =>
        /\ engine.calls = 1
        /\ engine.returned # <<>>
        /\ result = IF engine.returned[1].ok
                    THEN Ok(engine.returned[1].status)
                    ELSE Err(engine.returned[1].err[1])

C2_Witness ==
    /\ Done
    /\ ~failed
    /\ last = "send_json"
    /\ payload[1].ok
    /\ engine.calls = 1
    /\ result.kind = "Error"
    /\ result.err[1].case = "Timeout"

\* C3: the phase a builder was constructed with never changes; call is only
\* performed on a WithoutBody builder, content_type/send/send_json only on a
\* WithBody builder, and a builder performs at most one terminal operation.
C3_PhaseFixed ==
    (stage # "none") =>
        /\ phase = born
        /\ terminals <= 1
        /\ (Done <=> terminals = 1)
        /\ (Done <=> last \in {"call", "send", "send_json"})
        /\ (last = "call" => born = "WithoutBody")
        /\ (last \in {"content_type", "send", "send_json"} => born = "WithBody")

C3_Witness ==
    /\ Done
    /\ born = "WithBody"
    /\ ops = MaxOps
    /\ last = "send"
    /\ terminals = 1

\* C4 (as claimed): the finalized request's header list is exactly the sequence
\* of (name, value) pairs supplied through header() and content_type(), in call
\* order (a name taken as the header name it denotes, whatever its case).
C4_Original ==
    (Done /\ engine.request # <<>>) => HandedHeaders = SuppliedLowered

\* C4 (amended): the finalized request's header list holds exactly the supplied
\* pairs: for every name its values are the ones supplied for it, in call
\* order, none replaced or removed; the names come grouped, in the order of
\* their first appearance; nothing else is added.
C4_HeadersAppendedPerName ==
    (Done /\ engine.request # <<>>) =>
        /\ Len(HandedHeaders) = Len(supplied)
        /\ NamesOf(HandedHeaders) = NamesOf(SuppliedLowered)
        /\ \A n \in NamesOf(SuppliedLowered) :
              ValuesOf(HandedHeaders, n) = ValuesOf(SuppliedLowered, n)
        /\ \A i, k \in 1..Len(HandedHeaders) :
              (i < k /\ HandedHeaders[i][1] = HandedHeaders[k][1]) =>
                  \A j \in i..k : HandedHeaders[j][1] = HandedHeaders[i][1]
        /\ \A n, m \in NamesOf(SuppliedLowered) :
              FirstIndex(SuppliedLowered, n) < FirstIndex(SuppliedLowered, m) =>
                  FirstIndex(HandedHeaders, n) < FirstIndex(HandedHeaders, m)

C4_Witness ==
    /\ Done
    /\ engine.request # <<>>
    /\ Len(supplied) = 3
    /\ SuppliedLowered[1][1] = SuppliedLowered[3][1]
    /\ SuppliedLowered[2][1] # SuppliedLowered[1][1]
    /\ supplied[1][2] # supplied[3][2]

\* C5: call() hands the engine the empty body whatever headers were set;
\* send(payload) with a byte buffer or text hands it a byte-buffer body holding
\* exactly the payload's bytes.
C5_BodyByTerminal ==
    (Done /\ engine.calls > 0) =>
        /\ last = "call" =>
              /\ engine.body[1].inner = "ByteSlice"
              /\ engine.body[1].data = <<>>
        /\ (last = "send" /\ payload[1].type \in SliceTypes) =>
              /\ engine.body[1].inner = "ByteSlice"
              /\ engine.body[1].data = payload[1].bytes
              /\ ~engine.body[1].ended

C5_Witness ==
    /\ Done
    /\ last = "send"
    /\ payload[1] = [type |-> "&str", bytes |-> Hello]
    /\ engine.calls = 1
    /\ Len(engine.body[1].data) = 5
    /\ HandedHeaders = <<<<"content-type", "text/plain">>>>

\* C9 (as claimed): a value that fails validation is reported by the
\* header()/uri()/content_type() call that supplied it.
C9_Original ==
    (stage = "building" /\ failed) => result.kind = "Error"

\* C9 (amended): header()/uri()/version()/content_type() always return the
\* builder; a failed validation is kept in the builder (the first one) and is
\* reported as Error::Http by the terminal operation.
C9_ErrorDeferredToTerminal ==
    /\ stage = "building" => result.kind = "Builder"
    /\ (stage = "building" /\ failed) => (~builder.ok /\ builder.err # "")
    /\ (Done /\ failed) =>
          /\ result.kind = "Error"
          /\ Display(result.err[1]) = "http: " \o builder.err

C9_Witness ==
    /\ stage = "building"
    /\ failed
    /\ last = "header"
    /\ ~builder.ok
    /\ result.kind = "Builder"

\* C10: send() converts the payload and send_json() serializes only after the
\* metadata finalized: with invalid metadata the payload is untouched and the
\* Http error is returned also when the value cannot be serialized; a
\* serialization failure alone returns an error without invoking the engine.
C10_MetadataBeforePayload ==
    /\ (Done /\ failed) =>
          /\ touched = Untouched
          /\ result.kind = "Error"
          /\ result.err[1].case = "Http"
    /\ (Done /\ ~failed /\ last = "send") => touched = [as_body |-> 1, from_json |-> 0]
    /\ (Done /\ ~failed /\ last = "send_json") => touched = [as_body |-> 0, from_json |-> 1]
    /\ (Done /\ ~failed /\ SerializationFailed) =>
          /\ result.kind = "Error"
          /\ result.err[1].case # "Http"
          /\ engine.calls = 0

C10_Witness ==
    /\ Done
    /\ failed
    /\ SerializationFailed
    /\ result.kind = "Error"

\* ---------------------------------------------------------- claims on Error

\* C6: into_io of the Io case returns the wrapped io::Error itself, same kind
\* and message; of any other case an io::Error of kind Other whose message is
\* the Display text of the original error; every case is converted.
C6_IntoIoPreservesMessage ==
    (err # <<>> /\ io # <<>>) =>
        IF err[1].case = "Io"
        THEN /\ io[1] = err[1].io[1]
             /\ "io: " \o io_Display(io[1]) = Display(err[1])
        ELSE /\ io[1].kind = "Other"
             /\ io[1].inner = <<err[1]>>
             /\ io_Display(io[1]) = Display(err[1])

C6_Witness ==
    /\ err = <<disconnected>>
    /\ io # <<>>
    /\ io[1].kind = "UnexpectedEof"
    /\ io_Display(io[1]) = "Peer disconnected"

\* ----------------------------------------------------------- claims on Body

FromStream == body # <<>> /\ source[1].via = "as_body" /\ source[1].type \in StreamTypes

FromBuffer == body # <<>> /\ body[1].inner = "ByteSlice"

\* C7 (as claimed): a stream source passed by reference converts to the
\* borrowed-stream variant, one passed by value to the owned-stream variant, and
\* the conversion reads nothing from the device.
C7_Original ==
    FromStream =>
        /\ ByReference(source[1].type) => body[1].inner = "Reader"
        /\ ~ByReference(source[1].type) => body[1].inner = "OwnedReader"
        /\ reads.count = 0 => (device.reads = 0 /\ device.content = source[1].bytes)

\* C7 (amended): a stream source, passed by reference or by value, converts to
\* the borrowed-stream variant over that source (the owned-stream variant comes
\* from Body::from_owned_reader only); the conversion reads nothing from the
\* device, whose reads are the reads made on the Body.
C7_StreamsConvertToBorrowedReader ==
    /\ FromStream =>
          /\ body[1].inner = "Reader"
          /\ body[1].dev = source[1].type
          /\ ~body[1].ended \/ reads.count > 0
          /\ reads.count = 0 => (device.reads = 0 /\ device.content = source[1].bytes)
          /\ device.reads = reads.count
    /\ (body # <<>> /\ body[1].inner = "OwnedReader") => source[1].via = "from_owned_reader"

C7_Witness ==
    /\ FromStream
    /\ source[1].type = "File"
    /\ source[1].bytes # <<>>
    /\ body[1].inner = "Reader"
    /\ reads.count = 1
    /\ device.reads = 1
    /\ out # <<>>

\* C8: a Body over a byte buffer is not exhausted while bytes remain, what is
\* read from it is the source's bytes in order, it is exhausted by the read that
\* finds nothing left, the flag never goes back to FALSE, and the empty Body
\* yields no byte and is exhausted by its first read.
C8_ExhaustedAfterDrain ==
    FromBuffer =>
        /\ out \o body[1].data = source[1].bytes
        /\ body[1].ended => (body[1].data = <<>> /\ out = source[1].bytes)
        /\ reads.count = 0 => ~body[1].ended
        /\ (reads.count > 0 /\ reads.last = 0) => body[1].ended
        /\ (body[1].ended /\ reads.count > 0) => reads.last = 0
        /\ wasEnded => body[1].ended
        /\ (source[1].bytes = <<>> /\ reads.count > 0) => (body[1].ended /\ out = <<>>)

C8_Witness ==
    /\ FromBuffer
    /\ source[1].via = "as_body"
    /\ Len(source[1].bytes) = MaxLen
    /\ body[1].ended
    /\ out = source[1].bytes
    /\ reads.count = MaxReads

C8_EmptyWitness ==
    /\ FromBuffer
    /\ source[1].via = "empty"
    /\ reads.count = 1
    /\ body[1].ended

====
